---- MODULE Spec2Model ----
(***************************************************************************)
(* Model of src/dynamic_library.h: the path normalisation functions        *)
(* (FindDriveLetter, StripTrailingSeparators, GetParent), the directory    *)
(* switching library loader (LoadNativeLibraryHelper) and the              *)
(* DynamicLibrary handle class.                                            *)
(*                                                                         *)
(* A std::wstring is a sequence of one-character strings.  C++ indexes     *)
(* from 0, TLA+ from 1: At(path, i) is the C++ path[i].                    *)
(***************************************************************************)
EXTENDS Integers, Sequences, FiniteSets, TLC

(***************************************************************************)
(* Bounds of the model                                                     *)
(***************************************************************************)
\* longest path explored by the path specification
MaxLen == 5

(***************************************************************************)
(* Characters and size_type arithmetic                                     *)
(***************************************************************************)
\* std::wstring::npos is the all-ones size_type.  size_type arithmetic is
\* modulo Npos + 1; the width is scaled to 30 bits (the code only ever adds
\* 1, 2 or 3 to npos, so any width above the path lengths behaves alike).
Npos == 1073741823

SizeMod == Npos + 1

SizeAdd(a, b) == (a + b) % SizeMod

\* kSeparators without its terminating NUL (kSeparatorsLength - 1 entries)
kSeparators == << "\\", "/" >>

kCurrentDirectory == << "." >>

UpperCase == {"A", "B", "C", "D", "E", "F", "G", "H", "I", "J", "K", "L", "M",
              "N", "O", "P", "Q", "R", "S", "T", "U", "V", "W", "X", "Y", "Z"}

LowerCase == {"a", "b", "c", "d", "e", "f", "g", "h", "i", "j", "k", "l", "m",
              "n", "o", "p", "q", "r", "s", "t", "u", "v", "w", "x", "y", "z"}

\* characters the explored paths are built from: an upper and a lower case
\* letter, a character that is no letter, the colon and both separators
Alphabet == {"C", "a", "1", ":", "\\", "/"}

At(path, i) == path[i + 1]

\* std::wstring::resize(n): truncate, or pad with NUL characters
Resize(path, n) ==
    IF n <= Len(path) THEN SubSeq(path, 1, n)
    ELSE path \o [k \in 1..(n - Len(path)) |-> "NUL"]

\* FindDriveLetter that never finds a drive letter
FindDriveLetter_Never(path) == Npos

FindDriveLetter(path) ==
    IF /\ Len(path) >= 2
       /\ At(path, 1) = ":"
       /\ (At(path, 0) \in UpperCase \/ At(path, 0) \in LowerCase)
    THEN 1
    ELSE Npos

IsSeparator(character) ==
    \E i \in 1..Len(kSeparators) : character = kSeparators[i]

\* the loop without the test that keeps two leading separators
RECURSIVE StripLoop_NoDoubleRoot(_, _, _, _)
StripLoop_NoDoubleRoot(path, pos, last_stripped, start) ==
    IF pos > start /\ IsSeparator(At(path, pos - 1))
    THEN StripLoop_NoDoubleRoot(Resize(path, pos - 1), pos - 1, pos, start)
    ELSE path

\* the for loop of StripTrailingSeparators, one iteration per unfolding
RECURSIVE StripLoop(_, _, _, _)
StripLoop(path, pos, last_stripped, start) ==
    IF pos > start /\ IsSeparator(At(path, pos - 1))
    THEN IF \/ pos # SizeAdd(start, 1)
            \/ last_stripped = SizeAdd(start, 2)
            \/ ~IsSeparator(At(path, start - 1))
         THEN StripLoop(Resize(path, pos - 1), pos - 1, pos, start)
         ELSE StripLoop(path, pos - 1, last_stripped, start)
    ELSE path

StripTrailingSeparators(path) ==
    StripLoop(path, Len(path), Npos, SizeAdd(FindDriveLetter(path), 2))

\* path.find_last_of(kSeparators, npos, kSeparatorsLength - 1)
FindLastOfSeparators(path) ==
    LET hits == {i \in 0..(Len(path) - 1) : IsSeparator(At(path, i))}
    IN  IF hits = {} THEN Npos
        ELSE CHOOSE i \in hits : \A j \in hits : j <= i

\* branch selection without the root-directory branch keeping its separator
GetParentTruncate_RootDropped(path, letter, last_separator) ==
    IF last_separator = Npos THEN Resize(path, SizeAdd(letter, 1))
    ELSE IF last_separator = SizeAdd(letter, 1)
    THEN Resize(path, SizeAdd(letter, 1))
    ELSE IF /\ last_separator = SizeAdd(letter, 2)
            /\ IsSeparator(At(path, SizeAdd(letter, 1)))
    THEN Resize(path, SizeAdd(letter, 3))
    ELSE IF last_separator # 0 THEN Resize(path, last_separator)
    ELSE path

\* branch selection without the alternate-root ("//") branch
GetParentTruncate_NoAltRoot(path, letter, last_separator) ==
    IF last_separator = Npos THEN Resize(path, SizeAdd(letter, 1))
    ELSE IF last_separator = SizeAdd(letter, 1)
    THEN Resize(path, SizeAdd(letter, 2))
    ELSE IF last_separator # 0 THEN Resize(path, last_separator)
    ELSE path

\* branch selection that keeps one character too many when there is no
\* separator
GetParentTruncate_NoSeparatorKeepsOne(path, letter, last_separator) ==
    IF last_separator = Npos THEN Resize(path, SizeAdd(letter, 2))
    ELSE IF last_separator = SizeAdd(letter, 1)
    THEN Resize(path, SizeAdd(letter, 2))
    ELSE IF /\ last_separator = SizeAdd(letter, 2)
            /\ IsSeparator(At(path, SizeAdd(letter, 1)))
    THEN Resize(path, SizeAdd(letter, 3))
    ELSE IF last_separator # 0 THEN Resize(path, last_separator)
    ELSE path

\* branch selection in which a last separator at position 0 falls through
\* before the root-directory branch is tried
GetParentTruncate_ZeroFallsThrough(path, letter, last_separator) ==
    IF last_separator = Npos THEN Resize(path, SizeAdd(letter, 1))
    ELSE IF last_separator = 0 THEN path
    ELSE IF last_separator = SizeAdd(letter, 1)
    THEN Resize(path, SizeAdd(letter, 2))
    ELSE IF /\ last_separator = SizeAdd(letter, 2)
            /\ IsSeparator(At(path, SizeAdd(letter, 1)))
    THEN Resize(path, SizeAdd(letter, 3))
    ELSE Resize(path, last_separator)

\* the if / else-if chain of GetParent
GetParentTruncate(path, letter, last_separator) ==
    IF last_separator = Npos
    THEN Resize(path, SizeAdd(letter, 1))
    ELSE IF last_separator = SizeAdd(letter, 1)
    THEN Resize(path, SizeAdd(letter, 2))
    ELSE IF /\ last_separator = SizeAdd(letter, 2)
            /\ IsSeparator(At(path, SizeAdd(letter, 1)))
    THEN Resize(path, SizeAdd(letter, 3))
    ELSE IF last_separator # 0
    THEN Resize(path, last_separator)
    ELSE path

\* GetParent without the substitution of "." for an empty result
GetParent_NoCurrentDirectory(path) ==
    LET stripped       == StripTrailingSeparators(path)
        letter         == FindDriveLetter(stripped)
        last_separator == FindLastOfSeparators(stripped)
        truncated      == GetParentTruncate(stripped, letter, last_separator)
    IN  StripTrailingSeparators(truncated)

GetParent(path) ==
    LET stripped       == StripTrailingSeparators(path)
        letter         == FindDriveLetter(stripped)
        last_separator == FindLastOfSeparators(stripped)
        truncated      == GetParentTruncate(stripped, letter, last_separator)
        restripped     == StripTrailingSeparators(truncated)
    IN  IF Len(restripped) = 0 THEN kCurrentDirectory ELSE restripped

(***************************************************************************)
(* The operating system as the code sees it                                *)
(***************************************************************************)
\* HMODULE values the OS hands out for loaded libraries; Null is nullptr
Handles == {"h1", "h2"}

Null == "nullptr"

\* module names a DynamicLibrary may be given, and the HMODULE each has
\* while it is mapped into the process
WellKnownNames == {"kernel32"}

ModuleHandle == [n \in WellKnownNames |-> "hk"]

\* const char* function names: a null pointer, the empty string, an exported
\* symbol and one no module exports
NullName == "(null)"

FunctionNames == {NullName, "", "f", "g"}

Exports == {"f"}

NullAddress == [module |-> Null, symbol |-> ""]

\* ::GetProcAddress: the address of an exported symbol, else null; a null
\* HMODULE stands for the executable of the process
MainModule == "exe"

GetProcAddress(library, name) ==
    IF name \in Exports
    THEN [module |-> IF library = Null THEN MainModule ELSE library,
          symbol |-> name]
    ELSE NullAddress

\* library files asked for, and directories the process may start in
LibraryPaths == { << "C", ":", "\\", "p", "\\", "f" >>,
                  << "C", ":", "\\", "q", "\\", "g" >>,
                  << "f" >> }

InitialDirectories == { << "C", ":", "\\", "w" >>,
                        << "C", ":", "\\", "w", "\\" >> }

\* the library a DynamicLibrary is constructed from, and the directory the
\* process is in when the first instance is made
ConstructorPaths == { << "C", ":", "\\", "p", "\\", "f" >> }

HomeDirectory == << "C", ":", "\\", "w" >>

LoadThreads == {"t1", "t2"}

Instances == {"a", "b"}

(***************************************************************************)
(* State                                                                   *)
(***************************************************************************)
VARIABLES
    input,       \* the path handed to a path function, or to LoadLibrary
                 \* by the single-threaded run
    op,          \* the path function applied last ("none" before any)
    result,      \* what it returned
    cwd,         \* the current directory of the process, as the OS reports it
    frames,      \* per thread: the activation of LoadNativeLibraryHelper
    overlapped,  \* two LoadLibrary calls were in progress at the same time
                 \* since the last moment no call was in progress
    quiet_cwd,   \* the current directory at that last moment
    obj,         \* per DynamicLibrary instance: life cycle state, members
                 \* and what is remembered of the calls made on it
    resident,    \* names of the modules mapped into the process right now
    held,        \* handles the caller is responsible for (from Release)
    disciplined, \* no instance was yet given a handle another one owns
    lastCall     \* the member function called last, with what it did

pathVars == << input, op, result >>

loadVars == << frames, overlapped, quiet_cwd >>

libVars == << obj, resident, held, disciplined, lastCall >>

vars == << input, op, result, cwd, frames, overlapped, quiet_cwd, obj,
           resident, held, disciplined, lastCall >>

IdleFrame ==
    [pc |-> "idle", library_path |-> << >>, restore_directory |-> FALSE,
     current_directory |-> << >>, plugin_path |-> << >>, module |-> Null,
     calls |-> << >>]

\* was_reset: Reset was called; released: handles given out by Release and
\* not taken back; seen_valid: is_valid() returned true while the instance
\* held a name only; credit: per handle, the times the instance was given it
\* less the times it passed it to FreeLibrary or gave it out by Release
Unborn ==
    [state |-> "unborn", library_name_ |-> "", library_ |-> Null,
     was_reset |-> FALSE, released |-> {}, seen_valid |-> FALSE,
     credit |-> [h \in Handles |-> 0]]

NoCall ==
    [op |-> "none", inst |-> "none", arg |-> "none", before |-> Null,
     unloads |-> << >>, ret |-> "none"]

InitInertPath == input = << >> /\ op = "none" /\ result = << >>

InitInertLoad ==
    /\ frames = [t \in LoadThreads |-> IdleFrame]
    /\ overlapped = FALSE
    /\ quiet_cwd = cwd

InitInertLib ==
    /\ obj = [i \in Instances |-> Unborn]
    /\ resident = {}
    /\ held = {}
    /\ disciplined = TRUE
    /\ lastCall = NoCall

(***************************************************************************)
(* The path functions applied to every path over Alphabet up to MaxLen     *)
(***************************************************************************)
PathsUpTo(n) == UNION {[1..k -> Alphabet] : k \in 0..n}

InitPath ==
    /\ input \in PathsUpTo(MaxLen)
    /\ op = "none"
    /\ result = << >>
    /\ cwd \in InitialDirectories
    /\ InitInertLoad
    /\ InitInertLib

ApplyStripTrailingSeparators ==
    /\ op = "none"
    /\ op' = "StripTrailingSeparators"
    /\ result' = StripTrailingSeparators(input)
    /\ UNCHANGED << input, cwd, loadVars, libVars >>

ApplyGetParent ==
    /\ op = "none"
    /\ op' = "GetParent"
    /\ result' = GetParent(input)
    /\ UNCHANGED << input, cwd, loadVars, libVars >>

NextPath == ApplyStripTrailingSeparators \/ ApplyGetParent

SpecPath == InitPath /\ [][NextPath]_vars

(***************************************************************************)
(* LoadNativeLibraryHelper, statement by statement.  Each step takes the   *)
(* activation f, the current directory d of the process and the outcome of *)
(* the OS call it makes; it yields the activation and the directory        *)
(* afterwards.  f.calls lists the OS calls made: the directory reported by  *)
(* GetCurrentDirectory, the one asked of SetCurrentDirectory, the path and *)
(* result of LoadLibraryW and the directory current when it ran.           *)
(***************************************************************************)
OsCall(api, arg, ok, handle, d) ==
    [api |-> api, arg |-> arg, ok |-> ok, handle |-> handle, cwd |-> d]

NewFrame(library_path) ==
    [pc |-> "capture", library_path |-> library_path,
     restore_directory |-> FALSE, current_directory |-> << >>,
     plugin_path |-> << >>, module |-> Null, calls |-> << >>]

\* internal::GetCurrentDirectory(&current_directory), then GetParent and the
\* test of plugin_path.empty(); gotten is whether ::GetCurrentDirectory
\* reported a usable length
HelperCapture(f, d, gotten) ==
    LET call == OsCall("GetCurrentDirectory", IF gotten THEN d ELSE << >>,
                            gotten, Null, << >>)
        plugin_path == GetParent(f.library_path)
    IN  IF gotten
        THEN [frame |-> [f EXCEPT !.current_directory =
                                      StripTrailingSeparators(d),
                                  !.plugin_path = plugin_path,
                                  !.calls = Append(@, call),
                                  !.pc = IF plugin_path # << >>
                                         THEN "switch" ELSE "load"],
              cwd |-> d]
        ELSE [frame |-> [f EXCEPT !.calls = Append(@, call), !.pc = "load"],
              cwd |-> d]

\* the switch that forgets that a restore is owed
HelperSwitch_NoRestoreOwed(f, d, changed) ==
    [frame |-> [f EXCEPT !.calls = Append(@,
                    OsCall("SetCurrentDirectory", f.plugin_path, changed,
                           Null, << >>)),
                         !.pc = "load"],
     cwd |-> IF changed THEN f.plugin_path ELSE d]

\* internal::SetCurrentDirectory(plugin_path); restore_directory = true
HelperSwitch(f, d, changed) ==
    [frame |-> [f EXCEPT !.calls = Append(@,
                    OsCall("SetCurrentDirectory", f.plugin_path, changed,
                           Null, << >>)),
                         !.restore_directory = TRUE,
                         !.pc = "load"],
     cwd |-> IF changed THEN f.plugin_path ELSE d]

\* the load that hands the OS plugin_path instead of library_path
HelperLoad_PluginPath(f, d, module) ==
    [frame |-> [f EXCEPT !.calls = Append(@,
                    OsCall("LoadLibraryW", f.plugin_path,
                           module # Null, module, d)),
                         !.module = module,
                         !.pc = IF f.restore_directory
                                THEN "restore" ELSE "done"],
     cwd |-> d]

\* module = (*load_library_api)(library_path.c_str())
HelperLoad(f, d, module) ==
    [frame |-> [f EXCEPT !.calls = Append(@,
                    OsCall("LoadLibraryW", f.library_path, module # Null,
                           module, d)),
                         !.module = module,
                         !.pc = IF f.restore_directory
                                THEN "restore" ELSE "done"],
     cwd |-> d]

\* the restore that goes back to plugin_path
HelperRestore_PluginPath(f, d, changed) ==
    [frame |-> [f EXCEPT !.calls = Append(@,
                    OsCall("SetCurrentDirectory", f.plugin_path,
                           changed, Null, << >>)),
                         !.pc = "done"],
     cwd |-> IF changed THEN f.plugin_path ELSE d]

\* the restore that leaves the directory where the switch put it
HelperRestore_NoEffect(f, d, changed) ==
    [frame |-> [f EXCEPT !.calls = Append(@,
                    OsCall("SetCurrentDirectory", f.current_directory,
                           changed, Null, << >>)),
                         !.pc = "done"],
     cwd |-> d]

\* if (restore_directory) internal::SetCurrentDirectory(current_directory)
HelperRestore(f, d, changed) ==
    [frame |-> [f EXCEPT !.calls = Append(@,
                    OsCall("SetCurrentDirectory", f.current_directory,
                           changed, Null, << >>)),
                         !.pc = "done"],
     cwd |-> IF changed THEN f.current_directory ELSE d]

\* the whole call, run to completion by one thread
LoadNativeLibraryHelper(library_path, d, gotten, switched, module, restored) ==
    LET s1 == HelperCapture(NewFrame(library_path), d, gotten)
        s2 == IF s1.frame.pc = "switch"
              THEN HelperSwitch(s1.frame, s1.cwd, switched) ELSE s1
        s3 == HelperLoad(s2.frame, s2.cwd, module)
        s4 == IF s3.frame.pc = "restore"
              THEN HelperRestore(s3.frame, s3.cwd, restored) ELSE s3
    IN  s4

LoadLibrary(path, d, gotten, switched, module, restored) ==
    LoadNativeLibraryHelper(path, d, gotten, switched, module, restored)

(***************************************************************************)
(* Threads calling LoadLibrary, interleaved at the OS calls                *)
(***************************************************************************)
InitLoad ==
    /\ cwd \in InitialDirectories
    /\ InitInertLoad
    /\ InitInertPath
    /\ InitInertLib

Advance(t, step) ==
    /\ frames' = [frames EXCEPT ![t] = step.frame]
    /\ cwd' = step.cwd
    /\ UNCHANGED << overlapped, quiet_cwd, pathVars, libVars >>

CallLoadLibrary(t, library_path) ==
    LET others_busy == \E u \in LoadThreads \ {t} : frames[u].pc # "idle"
    IN  /\ frames[t].pc = "idle"
        /\ frames' = [frames EXCEPT ![t] = NewFrame(library_path)]
        /\ overlapped' = others_busy
        /\ quiet_cwd' = IF others_busy THEN quiet_cwd ELSE cwd
        /\ UNCHANGED << cwd, pathVars, libVars >>

Capture(t, gotten) ==
    /\ frames[t].pc = "capture"
    /\ Advance(t, HelperCapture(frames[t], cwd, gotten))

Switch(t, changed) ==
    /\ frames[t].pc = "switch"
    /\ Advance(t, HelperSwitch(frames[t], cwd, changed))

Load(t, module) ==
    /\ frames[t].pc = "load"
    /\ Advance(t, HelperLoad(frames[t], cwd, module))

Restore(t, changed) ==
    /\ frames[t].pc = "restore"
    /\ Advance(t, HelperRestore(frames[t], cwd, changed))

\* return module: the activation ends
Return(t) ==
    /\ frames[t].pc = "done"
    /\ frames' = [frames EXCEPT ![t] = IdleFrame]
    /\ UNCHANGED << cwd, overlapped, quiet_cwd, pathVars, libVars >>

NextLoad ==
    \E t \in LoadThreads :
        \/ \E p \in LibraryPaths : CallLoadLibrary(t, p)
        \/ \E gotten \in BOOLEAN : Capture(t, gotten)
        \/ \E changed \in BOOLEAN : Switch(t, changed)
        \/ \E module \in Handles \cup {Null} : Load(t, module)
        \/ \E changed \in BOOLEAN : Restore(t, changed)
        \/ Return(t)

SpecLoad == InitLoad /\ [][NextLoad]_vars

(***************************************************************************)
(* One thread calling LoadLibrary with any path over Alphabet up to MaxLen *)
(***************************************************************************)
MainThread == "t1"

InitSingle ==
    /\ input \in PathsUpTo(MaxLen)
    /\ op = "none"
    /\ result = << >>
    /\ cwd \in InitialDirectories
    /\ InitInertLoad
    /\ InitInertLib

NextSingle ==
    \/ CallLoadLibrary(MainThread, input)
    \/ \E gotten \in BOOLEAN : Capture(MainThread, gotten)
    \/ \E changed \in BOOLEAN : Switch(MainThread, changed)
    \/ \E module \in {"h1", Null} : Load(MainThread, module)
    \/ \E changed \in BOOLEAN : Restore(MainThread, changed)
    \/ Return(MainThread)

SpecSingle == InitSingle /\ [][NextSingle]_vars

(***************************************************************************)
(* Library functions under DynamicLibrary                                  *)
(***************************************************************************)
\* ::GetModuleHandle(name): the handle of a module mapped into the process
GetModuleHandle(name) ==
    IF name \in resident THEN ModuleHandle[name] ELSE Null

\* UnloadNativeLibrary without the test for a null handle
UnloadNativeLibrary_NoNullTest(library) == << library >>

\* UnloadNativeLibrary that frees the handle twice
UnloadNativeLibrary_Twice(library) ==
    IF library = Null THEN << >> ELSE << library, library >>

\* the handles passed to ::FreeLibrary by UnloadNativeLibrary(library)
UnloadNativeLibrary(library) ==
    IF library = Null THEN << >> ELSE << library >>

\* WellKnownLibrary that takes the empty name for resident
WellKnownLibrary_EmptyIsKnown(library_name) ==
    IF library_name = "" THEN TRUE
    ELSE GetModuleHandle(library_name) # Null

WellKnownLibrary(library_name) ==
    IF library_name = "" THEN FALSE
    ELSE GetModuleHandle(library_name) # Null

GetFunctionPointerFromNativeLibrary(library, name) ==
    IF name = NullName THEN NullAddress
    ELSE GetProcAddress(library, name)

GetFunctionPointerFromNativeLibraryByName(library_name, name) ==
    IF name = NullName THEN NullAddress
    ELSE LET wellknown_handler == GetModuleHandle(library_name)
         IN  IF wellknown_handler = Null THEN NullAddress
             ELSE GetFunctionPointerFromNativeLibrary(wellknown_handler, name)

(***************************************************************************)
(* class DynamicLibrary; o is the record of one instance                   *)
(***************************************************************************)
\* is_valid that takes a name for valid without asking the OS again
is_valid_NameIsEnough(o) == o.library_ # Null \/ o.library_name_ # ""

is_valid(o) == o.library_ # Null \/ WellKnownLibrary(o.library_name_)

\* GetFunctionPointer without the validity test
GetFunctionPointer_NoValidityTest(o, function_name) ==
    IF o.library_name_ = ""
    THEN GetFunctionPointerFromNativeLibrary(o.library_, function_name)
    ELSE GetFunctionPointerFromNativeLibraryByName(o.library_name_,
                                                   function_name)

GetFunctionPointer(o, function_name) ==
    IF ~is_valid(o) THEN NullAddress
    ELSE IF o.library_name_ = ""
    THEN GetFunctionPointerFromNativeLibrary(o.library_, function_name)
    ELSE GetFunctionPointerFromNativeLibraryByName(o.library_name_,
                                                   function_name)

\* the template overload taking a std::string (never a null pointer)
GetFunctionPointerTyped(o, InterfaceName) ==
    IF ~is_valid(o) /\ InterfaceName = "" THEN NullAddress
    ELSE GetFunctionPointer(o, InterfaceName)

\* the handles that live instances hold in library_
OwnedHandles == {obj[i].library_ : i \in {j \in Instances : obj[j].state = "live"}} \ {Null}

\* giving handle h to an instance keeps the discipline if the caller is
\* responsible for h or no live instance holds it
Adoptable(h) == h = Null \/ h \in held \/ h \notin OwnedHandles

Called(name, i, arg, before, unloads, ret) ==
    [op |-> name, inst |-> i, arg |-> arg, before |-> before,
     unloads |-> unloads, ret |-> ret]

Count(seq, h) == Cardinality({k \in 1..Len(seq) : seq[k] = h})

Clip(n) == IF n < -1 THEN -1 ELSE IF n > 2 THEN 2 ELSE n

\* the credit after a call that passed unloads to FreeLibrary, gave given_up
\* to the caller and took adopted into library_
Settle(credit, unloads, given_up, adopted) ==
    [h \in Handles |->
        Clip(credit[h] - Count(unloads, h)
             - (IF h = given_up THEN 1 ELSE 0)
             + (IF h = adopted THEN 1 ELSE 0))]

Live(library_name, library) ==
    [state |-> "live", library_name_ |-> library_name, library_ |-> library,
     was_reset |-> FALSE, released |-> {}, seen_valid |-> FALSE,
     credit |-> Settle([h \in Handles |-> 0], << >>, Null, library)]

\* explicit DynamicLibrary() {}
ConstructDefault(i) ==
    /\ obj[i].state = "unborn"
    /\ obj' = [obj EXCEPT ![i] = Live("", Null)]
    /\ lastCall' = Called("DynamicLibrary()", i, "none", Null, << >>, "none")
    /\ UNCHANGED << resident, held, disciplined, cwd, pathVars, loadVars >>

\* explicit DynamicLibrary(const HMODULE& library)
ConstructFromHandle(i, library) ==
    /\ obj[i].state = "unborn"
    /\ obj' = [obj EXCEPT ![i] = Live("", library)]
    /\ held' = held \ {library}
    /\ disciplined' = (disciplined /\ Adoptable(library))
    /\ lastCall' = Called("DynamicLibrary(HMODULE)", i, library, Null, << >>,
                          "none")
    /\ UNCHANGED << resident, cwd, pathVars, loadVars >>

\* explicit DynamicLibrary(const std::wstring& path)
ConstructFromPath(i, path, gotten, switched, module, restored) ==
    LET loaded == LoadLibrary(path, cwd, gotten, switched, module, restored)
    IN  /\ obj[i].state = "unborn"
        /\ obj' = [obj EXCEPT ![i] = Live("", loaded.frame.module)]
        /\ cwd' = loaded.cwd
        /\ disciplined' = (disciplined /\
                           (module = Null \/
                            (module \notin held /\ module \notin OwnedHandles)))
        /\ lastCall' = Called("DynamicLibrary(path)", i, path, Null, << >>,
                              "none")
        /\ UNCHANGED << resident, held, pathVars, loadVars >>

\* explicit DynamicLibrary(LPCTSTR filename)
ConstructFromName(i, filename) ==
    /\ obj[i].state = "unborn"
    /\ obj' = [obj EXCEPT ![i] = Live(filename, Null)]
    /\ lastCall' = Called("DynamicLibrary(LPCTSTR)", i, filename, Null, << >>,
                          "none")
    /\ UNCHANGED << resident, held, disciplined, cwd, pathVars, loadVars >>

\* virtual ~DynamicLibrary()
Destroy(i) ==
    /\ obj[i].state = "live"
    /\ obj' = [obj EXCEPT ![i].state = "destroyed",
                          ![i].credit = Settle(@,
                              UnloadNativeLibrary(obj[i].library_), Null,
                              Null)]
    /\ lastCall' = Called("~DynamicLibrary", i, "none", obj[i].library_,
                          UnloadNativeLibrary(obj[i].library_), "none")
    /\ UNCHANGED << resident, held, disciplined, cwd, pathVars, loadVars >>

IsValid(i) ==
    /\ obj[i].state = "live"
    /\ obj' = [obj EXCEPT ![i].seen_valid =
                   @ \/ (/\ obj[i].library_name_ # ""
                         /\ obj[i].library_ = Null
                         /\ is_valid(obj[i]))]
    /\ lastCall' = Called("is_valid", i, "none", obj[i].library_, << >>,
                          is_valid(obj[i]))
    /\ UNCHANGED << resident, held, disciplined, cwd, pathVars, loadVars >>

CallGetFunctionPointer(i, function_name) ==
    /\ obj[i].state = "live"
    /\ lastCall' = Called("GetFunctionPointer", i, function_name,
                          obj[i].library_, << >>,
                          GetFunctionPointer(obj[i], function_name))
    /\ UNCHANGED << obj, resident, held, disciplined, cwd, pathVars,
                    loadVars >>

CallGetFunctionPointerTyped(i, InterfaceName) ==
    /\ obj[i].state = "live"
    /\ lastCall' = Called("GetFunctionPointer<R,P...>", i, InterfaceName,
                          obj[i].library_, << >>,
                          GetFunctionPointerTyped(obj[i], InterfaceName))
    /\ UNCHANGED << obj, resident, held, disciplined, cwd, pathVars,
                    loadVars >>

\* void Reset(HMODULE library)
Reset(i, library) ==
    /\ obj[i].state = "live"
    /\ obj' = [obj EXCEPT ![i].library_ = library,
                          ![i].was_reset = TRUE,
                          ![i].released = @ \ {library},
                          ![i].credit = Settle(@,
                              UnloadNativeLibrary(obj[i].library_), Null,
                              library)]
    /\ held' = held \ {library}
    /\ disciplined' = (disciplined /\ Adoptable(library))
    /\ lastCall' = Called("Reset", i, library, obj[i].library_,
                          UnloadNativeLibrary(obj[i].library_), "none")
    /\ UNCHANGED << resident, cwd, pathVars, loadVars >>

\* Release that hands out the handle but keeps it in library_
ReleaseEffect_KeepsHandle(o) ==
    [result |-> o.library_, library_ |-> o.library_]

\* auto result = library_; library_ = nullptr; return result;
ReleaseEffect(o) ==
    [result |-> o.library_, library_ |-> Null]

\* auto Release()
Release(i) ==
    LET done == ReleaseEffect(obj[i])
    IN  /\ obj[i].state = "live"
        /\ obj' = [obj EXCEPT ![i].library_ = done.library_,
                              ![i].released = @ \cup ({done.result} \ {Null}),
                              ![i].credit = Settle(@, << >>, done.result,
                                                   Null)]
        /\ held' = held \cup ({done.result} \ {Null})
        /\ lastCall' = Called("Release", i, "none", obj[i].library_, << >>,
                              done.result)
        /\ UNCHANGED << resident, disciplined, cwd, pathVars, loadVars >>

\* another part of the process maps or unmaps a well-known module
ModuleMapped(name) ==
    /\ name \notin resident
    /\ resident' = resident \cup {name}
    /\ lastCall' = Called("module mapped", "none", name, Null, << >>, "none")
    /\ UNCHANGED << obj, held, disciplined, cwd, pathVars, loadVars >>

ModuleUnmapped(name) ==
    /\ name \in resident
    /\ resident' = resident \ {name}
    /\ lastCall' = Called("module unmapped", "none", name, Null, << >>,
                          "none")
    /\ UNCHANGED << obj, held, disciplined, cwd, pathVars, loadVars >>

InitLib ==
    /\ cwd = HomeDirectory
    /\ resident \in SUBSET WellKnownNames
    /\ obj = [i \in Instances |-> Unborn]
    /\ held = {}
    /\ disciplined = TRUE
    /\ lastCall = NoCall
    /\ InitInertPath
    /\ InitInertLoad

NextLib ==
    \/ \E i \in Instances :
        \/ ConstructDefault(i)
        \/ \E library \in Handles \cup {Null} : ConstructFromHandle(i, library)
        \/ \E path \in ConstructorPaths, module \in Handles \cup {Null},
              gotten, switched, restored \in BOOLEAN :
               ConstructFromPath(i, path, gotten, switched, module, restored)
        \/ \E filename \in WellKnownNames \cup {""} :
               ConstructFromName(i, filename)
        \/ Destroy(i)
        \/ IsValid(i)
        \/ \E function_name \in FunctionNames :
               CallGetFunctionPointer(i, function_name)
        \/ \E InterfaceName \in FunctionNames \ {NullName} :
               CallGetFunctionPointerTyped(i, InterfaceName)
        \/ \E library \in Handles \cup {Null} : Reset(i, library)
        \/ Release(i)
    \/ \E name \in WellKnownNames : ModuleMapped(name) \/ ModuleUnmapped(name)

SpecLib == InitLib /\ [][NextLib]_vars

(***************************************************************************)
(* Vocabulary of the path claims, stated on the characters of a path       *)
(***************************************************************************)
Sep(c) == c \in {"\\", "/"}

HasDrivePrefix(p) ==
    Len(p) >= 2 /\ p[2] = ":" /\ p[1] \in (UpperCase \cup LowerCase)

DriveLen(p) == IF HasDrivePrefix(p) THEN 2 ELSE 0

\* a root: the optional drive prefix, then one separator or exactly two
IsRootPath(p) ==
    LET d == DriveLen(p)
    IN  \/ Len(p) = d + 1 /\ Sep(p[d + 1])
        \/ Len(p) = d + 2 /\ Sep(p[d + 1]) /\ Sep(p[d + 2])

\* exactly two separators at the start and nothing else
IsDoubleRootOnly(p) ==
    LET d == DriveLen(p)
    IN  Len(p) = d + 2 /\ Sep(p[d + 1]) /\ Sep(p[d + 2])

\* exactly two separators at the start, followed by non-separator content
StartsDoubleRoot(p) ==
    LET d == DriveLen(p)
    IN  Len(p) >= d + 3 /\ Sep(p[d + 1]) /\ Sep(p[d + 2]) /\ ~Sep(p[d + 3])

\* 1-based position of the last separator of p, 0 when there is none
LastSepPos(p) ==
    LET hits == {k \in 1..Len(p) : Sep(p[k])}
    IN  IF hits = {} THEN 0 ELSE CHOOSE k \in hits : \A j \in hits : j <= k

IsPrefixOf(r, p) == Len(r) <= Len(p) /\ r = SubSeq(p, 1, Len(r))

Min(a, b) == IF a <= b THEN a ELSE b

(***************************************************************************)
(* Claims about the path functions (specification SpecPath)                *)
(***************************************************************************)
\* C7: GetParent is idempotent on root paths: for a root R (optional drive
\* prefix followed by one separator or by exactly two), GetParent(R) = R.
C7_GetParentIdempotentOnRoots ==
    (op = "GetParent" /\ IsRootPath(input)) => result = input

C7_Witness ==
    /\ op = "GetParent"
    /\ input = << "C", ":", "\\" >>
    /\ result = input

\* C8: for a path with a drive-letter prefix GetParent keeps the prefix; if
\* the last separator of the stripped path directly follows the colon the
\* result is the prefix plus that one separator; if it lies deeper (and the
\* path is not under a double-separator root) the result is the stripped
\* path cut just before its last separator, trailing separators stripped.
C8_GetParentDriveLetter ==
    (op = "GetParent" /\ HasDrivePrefix(input)) =>
        LET s    == StripTrailingSeparators(input)
            last == LastSepPos(s)
        IN  /\ Len(result) >= 2
            /\ SubSeq(result, 1, 2) = SubSeq(input, 1, 2)
            /\ last = 3 => result = << input[1], input[2], s[3] >>
            /\ (last > 3 /\ ~(Sep(s[3]) /\ Sep(s[4]))) =>
                   result = StripTrailingSeparators(SubSeq(s, 1, last - 1))

C8_Witness ==
    /\ op = "GetParent"
    /\ input = << "C", ":", "\\", "a", "\\" >>
    /\ result = << "C", ":", "\\" >>

\* C9: StripTrailingSeparators(p) is p with trailing separators removed and
\* nothing else changed, but it never strips into the root: it keeps the
\* drive prefix with one root separator, the first character of a path
\* without drive letter, and a root of exactly two separators; outside those
\* root forms the result does not end in a separator.
C9_StripTrailingSeparators ==
    (op = "StripTrailingSeparators") =>
        LET start == DriveLen(input) + 1
        IN  /\ IsPrefixOf(result, input)
            /\ \A k \in (Len(result) + 1)..Len(input) : Sep(input[k])
            /\ Len(result) >= Min(Len(input), start)
            /\ IsDoubleRootOnly(input) => result = input
            /\ (Len(result) > start /\ ~IsDoubleRootOnly(input)) =>
                   ~Sep(result[Len(result)])

C9_Witness ==
    /\ op = "StripTrailingSeparators"
    /\ input = << "C", ":", "\\", "\\", "\\" >>
    /\ result = << "C", ":", "\\" >>

\* C10: for a path that begins with exactly two separators followed by
\* non-separator content (optionally after a drive prefix), GetParent
\* returns a path that still begins with those two separators.
C10_GetParentKeepsDoubleRoot ==
    (op = "GetParent" /\ StartsDoubleRoot(input)) =>
        LET d == DriveLen(input)
        IN  /\ Len(result) >= d + 2
            /\ SubSeq(result, 1, d + 2) = SubSeq(input, 1, d + 2)

C10_Witness ==
    /\ op = "GetParent"
    /\ input = << "\\", "\\", "a", "\\", "a" >>
    /\ result = << "\\", "\\", "a" >>

\* C11: for a path without any separator GetParent returns the drive prefix
\* alone (letter and colon) when the path has one, and "." when it has none.
C11_GetParentWithoutSeparator ==
    (op = "GetParent" /\ LastSepPos(input) = 0) =>
        result = IF HasDrivePrefix(input)
                 THEN << input[1], input[2] >>
                 ELSE << "." >>

C11_Witness ==
    /\ op = "GetParent"
    /\ input = << "C", ":", "a", "1" >>
    /\ result = << "C", ":" >>

\* what the if / else-if chain of GetParent makes of the stripped input
TruncatedInput ==
    LET s == StripTrailingSeparators(input)
    IN  GetParentTruncate(s, FindDriveLetter(s), FindLastOfSeparators(s))

\* C16 as stated: whenever the last separator of the stripped path is at
\* position 0, the branch selection of GetParent truncates nothing.
C16_NoTruncationAtPositionZero ==
    (op = "GetParent" /\ LastSepPos(StripTrailingSeparators(input)) = 1) =>
        TruncatedInput = StripTrailingSeparators(input)

\* C16 as amended: whenever the last separator of the stripped path is at
\* position 0, the root-directory branch applies (without drive letter,
\* letter + 1 is 0) and the path is cut down to that leading separator; it
\* is left as it was only when it is that one separator and nothing else.
C16_TruncatedToLeadingSeparator ==
    (op = "GetParent" /\ LastSepPos(StripTrailingSeparators(input)) = 1) =>
        /\ TruncatedInput = << input[1] >>
        /\ result = << input[1] >>

C16_Witness ==
    /\ op = "GetParent"
    /\ input = << "/", "a", "1" >>
    /\ result = << "/" >>

(***************************************************************************)
(* Claims about LoadLibrary (specification SpecLoad)                       *)
(***************************************************************************)
CallsOf(f, api) == {k \in 1..Len(f.calls) : f.calls[k].api = api}

CaptureSucceeded(f) == Len(f.calls) >= 1 /\ f.calls[1].ok

\* C1: in every LoadLibrary call whose capture of the current directory
\* succeeds, SetCurrentDirectory(GetParent(library_path)) is called before
\* the OS load and SetCurrentDirectory(captured directory) after it, whether
\* the OS load returns a handle or null.
C1_SwitchBeforeLoadRestoreAfter ==
    \A t \in LoadThreads :
        LET f == frames[t]
        IN  CaptureSucceeded(f) =>
                /\ \A k \in CallsOf(f, "LoadLibraryW") :
                       /\ k = 3
                       /\ f.calls[2].api = "SetCurrentDirectory"
                       /\ f.calls[2].arg = GetParent(f.library_path)
                /\ f.pc = "done" =>
                       /\ CallsOf(f, "LoadLibraryW") = {3}
                       /\ Len(f.calls) = 4
                       /\ f.calls[4].api = "SetCurrentDirectory"
                       /\ f.calls[4].arg =
                              StripTrailingSeparators(f.calls[1].arg)

C1_Witness ==
    \E t \in LoadThreads :
        LET f == frames[t]
        IN  /\ f.pc = "done"
            /\ f.library_path = << "C", ":", "\\", "p", "\\", "f" >>
            /\ Len(f.calls) = 4
            /\ f.calls[1].ok
            /\ f.calls[1].arg = << "C", ":", "\\", "w", "\\" >>
            /\ f.calls[2].arg = << "C", ":", "\\", "p" >>
            /\ f.calls[3].api = "LoadLibraryW" /\ f.calls[3].handle = Null
            /\ f.calls[4].arg = << "C", ":", "\\", "w" >>

\* C5: every LoadLibrary call invokes the OS load exactly once, with
\* library_path unchanged, and returns what that call returned, whether the
\* directory calls succeed or fail; when GetCurrentDirectory fails no
\* SetCurrentDirectory call is made.
C5_OneLoadExactPath ==
    \A t \in LoadThreads :
        LET f == frames[t]
            loads == CallsOf(f, "LoadLibraryW")
        IN  /\ Cardinality(loads) <= 1
            /\ \A k \in loads : f.calls[k].arg = f.library_path
            /\ f.pc = "done" =>
                   /\ Cardinality(loads) = 1
                   /\ \A k \in loads : f.module = f.calls[k].handle
            /\ (Len(f.calls) >= 1 /\ ~f.calls[1].ok) =>
                   CallsOf(f, "SetCurrentDirectory") = {}

C5_Witness ==
    \E t \in LoadThreads :
        LET f == frames[t]
        IN  /\ f.pc = "done"
            /\ ~f.calls[1].ok
            /\ Len(f.calls) = 2
            /\ f.calls[2].api = "LoadLibraryW"
            /\ f.calls[2].arg = f.library_path
            /\ f.module = "h1"

\* C15: the capture, switch, load and restore of LoadLibrary are not one
\* atomic step.  While no two calls have overlapped, every OS load made after
\* a successful capture and switch runs in the parent directory of its
\* library, and a call that is complete leaves the directory that was current
\* before it (trailing separators removed) unless its restore failed; two
\* overlapping calls for libraries in different directories break both (the
\* witness is such an interleaving).
C15_DirectoryDisciplineOnlyWithoutOverlap ==
    \A t \in LoadThreads :
        LET f == frames[t]
        IN  ~overlapped =>
                /\ \A k \in CallsOf(f, "LoadLibraryW") :
                       (CaptureSucceeded(f) /\ f.calls[2].ok) =>
                           f.calls[k].cwd = GetParent(f.library_path)
                /\ (/\ f.pc = "done"
                    /\ CaptureSucceeded(f)
                    /\ f.calls[Len(f.calls)].ok) =>
                       cwd = StripTrailingSeparators(quiet_cwd)
                /\ (Len(f.calls) >= 1 /\ ~f.calls[1].ok) => cwd = quiet_cwd

C15_Witness ==
    /\ overlapped
    /\ \A t \in LoadThreads :
           LET f == frames[t]
           IN  /\ f.pc = "done"
               /\ Len(f.calls) = 4
               /\ \A k \in 1..4 : f.calls[k].ok
    /\ GetParent(frames["t1"].library_path)
           # GetParent(frames["t2"].library_path)
    /\ \E t \in LoadThreads :
           frames[t].calls[3].cwd # GetParent(frames[t].library_path)
    /\ cwd # StripTrailingSeparators(quiet_cwd)

(***************************************************************************)
(* Claims about one thread calling LoadLibrary (specification SpecSingle)  *)
(***************************************************************************)
\* C17: GetParent never returns an empty path, so whenever the capture of the
\* current directory succeeds LoadLibrary calls
\* SetCurrentDirectory(plugin_path) before the OS load, owes the restore and
\* calls SetCurrentDirectory(current_directory) after the load, for a bare
\* file name and when the switch failed as well.
C17_AlwaysSwitchAndRestore ==
    /\ GetParent(input) # << >>
    /\ \A t \in LoadThreads :
           LET f == frames[t]
           IN  CaptureSucceeded(f) =>
                   /\ f.plugin_path # << >>
                   /\ f.pc = "switch" \/ Len(f.calls) >= 2
                   /\ Len(f.calls) >= 2 =>
                          /\ f.calls[2].api = "SetCurrentDirectory"
                          /\ f.calls[2].arg = f.plugin_path
                          /\ f.restore_directory
                   /\ Len(f.calls) >= 3 =>
                          /\ f.calls[3].api = "LoadLibraryW"
                          /\ f.pc \in {"restore", "done"}
                   /\ f.pc = "done" =>
                          /\ Len(f.calls) = 4
                          /\ f.calls[4].api = "SetCurrentDirectory"
                          /\ f.calls[4].arg = f.current_directory

C17_Witness ==
    LET f == frames[MainThread]
    IN  /\ f.pc = "done"
        /\ f.library_path = << "a" >>
        /\ f.plugin_path = kCurrentDirectory
        /\ f.calls[1].ok
        /\ ~f.calls[2].ok
        /\ Len(f.calls) = 4
        /\ f.calls[4].api = "SetCurrentDirectory"

\* C19: with one thread, when a LoadLibrary call is complete the current
\* directory is the one that was current before the call with its trailing
\* separators removed, for every library_path and whether the OS load gave a
\* handle or null, unless the restoring SetCurrentDirectory failed; when the
\* capture failed the current directory is never changed.
C19_DirectoryRestoredSingleThreaded ==
    LET f == frames[MainThread]
    IN  /\ (/\ f.pc = "done"
            /\ CaptureSucceeded(f)
            /\ \A k \in CallsOf(f, "SetCurrentDirectory") :
                   k = 2 \/ f.calls[k].ok) =>
               cwd = StripTrailingSeparators(quiet_cwd)
        /\ (Len(f.calls) >= 1 /\ ~f.calls[1].ok) =>
               /\ cwd = quiet_cwd
               /\ CallsOf(f, "SetCurrentDirectory") = {}

C19_Witness ==
    LET f == frames[MainThread]
    IN  /\ f.pc = "done"
        /\ Len(f.calls) = 4
        /\ f.calls[1].ok /\ f.calls[2].ok /\ f.calls[4].ok
        /\ f.calls[3].cwd = f.plugin_path
        /\ f.plugin_path # StripTrailingSeparators(quiet_cwd)
        /\ f.module = Null
        /\ quiet_cwd = << "C", ":", "\\", "w", "\\" >>
        /\ cwd = << "C", ":", "\\", "w" >>

(***************************************************************************)
(* Claims about DynamicLibrary (specification SpecLib)                     *)
(***************************************************************************)
Range(seq) == {seq[k] : k \in 1..Len(seq)}

LiveInstances == {i \in Instances : obj[i].state = "live"}

\* the code tells the two modes apart by library_name_.empty()
OwnedMode(o) == o.library_name_ = ""

C3_ResetSwitchesToOwnedMode ==
    \A i \in LiveInstances :
        (obj[i].library_name_ # "" /\ obj[i].was_reset) =>
            (is_valid(obj[i]) <=> obj[i].library_ # Null)

Owners(h) == {i \in LiveInstances : obj[i].library_ = h}

\* C6 as stated: whatever the sequence of constructions, Reset, Release and
\* destruction, a non-null handle is held by at most one live instance.
C6_AtMostOneOwner ==
    \A h \in Handles : Cardinality(Owners(h)) <= 1

\* C6 as amended: a non-null handle is held by at most one live instance as
\* long as no instance was given (by construction from a handle, by Reset or
\* by the OS load of a construction from a path) a handle that a live
\* instance held at that moment; a handle got from Release may be given on.
C6_AtMostOneOwnerUnderDiscipline ==
    disciplined => \A h \in Handles : Cardinality(Owners(h)) <= 1

C6_Witness ==
    /\ disciplined
    /\ obj["a"].state = "live" /\ obj["a"].released = {"h1"}
    /\ obj["b"].state = "live" /\ obj["b"].library_ = "h1"
    /\ lastCall.op = "Reset" /\ lastCall.inst = "b" /\ lastCall.before = "h2"

\* C12: after Reset(someHandle) with a non-null handle on an instance that
\* was constructed from a well-known name, GetFunctionPointer resolves the
\* name against someHandle, not against the module found by the name.
C12_ResolvesAgainstHandleAfterReset ==
    (/\ lastCall.op = "GetFunctionPointer"
     /\ lastCall.arg \in Exports
     /\ obj[lastCall.inst].library_name_ # ""
     /\ obj[lastCall.inst].was_reset
     /\ obj[lastCall.inst].library_ # Null) =>
        lastCall.ret = [module |-> obj[lastCall.inst].library_,
                        symbol |-> lastCall.arg]

\* what UnloadNativeLibrary is to pass to FreeLibrary for handle h
FreedFor(h) == IF h = Null THEN << >> ELSE << h >>

\* C13: an instance calls FreeLibrary only on a non-null handle it holds and
\* only in Reset and in the destructor: Reset frees the handle held before
\* exactly once if it is non-null and then holds the new one; the destructor
\* frees the handle held exactly once if it is non-null; an instance made
\* from a name and never reset frees nothing; a null handle is never freed.
C13_UnloadOnlyOwnedInResetAndDestructor ==
    /\ Null \notin Range(lastCall.unloads)
    /\ lastCall.unloads # << >> => lastCall.op \in {"Reset", "~DynamicLibrary"}
    /\ lastCall.op = "Reset" =>
           /\ lastCall.unloads = FreedFor(lastCall.before)
           /\ obj[lastCall.inst].library_ = lastCall.arg
    /\ lastCall.op = "~DynamicLibrary" =>
           lastCall.unloads = FreedFor(lastCall.before)
    /\ \A i \in Instances :
           (/\ obj[i].library_name_ # "" /\ ~obj[i].was_reset
            /\ lastCall.inst = i) => lastCall.unloads = << >>

C13_Witness ==
    /\ lastCall.op = "Reset"
    /\ lastCall.before = "h1" /\ lastCall.arg = "h2"
    /\ lastCall.unloads = << "h1" >>
    /\ obj[lastCall.inst].library_ = "h2"

\* an instance that holds a name and no handle
Referenced(o) == o.library_name_ # "" /\ o.library_ = Null

\* C14: for an instance in referenced mode validity is not cached: every
\* is_valid() and every GetFunctionPointer asks the OS whether the name is
\* resident at the time of the call, so both fail once the module is gone
\* and succeed again once it is back.
C14_ResidencyCheckedAtEachCall ==
    LET o == obj[lastCall.inst]
    IN  /\ (lastCall.op = "is_valid" /\ Referenced(o)) =>
               lastCall.ret = (o.library_name_ \in resident)
        /\ (/\ lastCall.op \in {"GetFunctionPointer",
                                "GetFunctionPointer<R,P...>"}
            /\ lastCall.arg \in Exports
            /\ Referenced(o)) =>
               lastCall.ret =
                   IF o.library_name_ \in resident
                   THEN [module |-> ModuleHandle[o.library_name_],
                         symbol |-> lastCall.arg]
                   ELSE NullAddress

C14_Witness ==
    /\ lastCall.op = "is_valid"
    /\ Referenced(obj[lastCall.inst])
    /\ obj[lastCall.inst].seen_valid
    /\ lastCall.ret = FALSE

\* C18 as stated: FreeLibrary is called at most once for each handle the
\* instance was given, and the instance never keeps in library_ a handle it
\* has passed to FreeLibrary, also when Reset(h) is given the handle held.
C18_NeverKeepsAFreedHandle ==
    \A i \in LiveInstances :
        lastCall.inst = i => obj[i].library_ \notin Range(lastCall.unloads)

\* C18 as amended: FreeLibrary is called at most once for each time the
\* instance was given a handle (by construction or Reset), never for one it
\* gave out by Release: the handle in library_ is the only one given and not
\* yet freed; Reset(h) with the handle held frees h once and holds h again.
C18_OneUnloadForEachAdoption ==
    \A i \in Instances : \A h \in Handles :
        obj[i].credit[h] =
            IF obj[i].state = "live" /\ obj[i].library_ = h THEN 1 ELSE 0

C18_Witness ==
    /\ lastCall.op = "Reset"
    /\ lastCall.before = "h1" /\ lastCall.arg = "h1"
    /\ lastCall.unloads = << "h1" >>
    /\ obj[lastCall.inst].library_ = "h1"
    /\ obj[lastCall.inst].credit["h1"] = 1

====
